---- MODULE Spec2Model ----
(***************************************************************************)
(* StoryPath project-home screen (ProjectHomeScreen.jsx): loading of the   *)
(* project, its locations and the persisted visited set, the proximity     *)
(* tracking effect, the unlock of a location, the reset of the access      *)
(* history, and the hand-over of a QR scan (QRScanner.jsx).                *)
(*                                                                         *)
(* Geography is one-dimensional: a coordinate is a whole number of metres  *)
(* on a line, and geolib's getDistance (whole metres) is the absolute      *)
(* difference.  A value that may be null in the program is a sequence of   *)
(* length 0 (null) or 1 (the value).  A position string "(lat, lon)" is    *)
(* the sequence of its comma-separated field texts; on the line it has one *)
(* field.                                                                  *)
(*                                                                         *)
(* AsyncStorage executes its operations one after the other in the order   *)
(* they were issued; network calls and device calls resolve in any order.  *)
(* React state is written when the setter is called; the effects that      *)
(* depend on it run in a later step (Commit).                              *)
(***************************************************************************)
EXTENDS Integers, Sequences, FiniteSets, TLC

\* ---------------------------------------------------------------- bounds
MaxResets == 1

\* Barcode events handled in one scanning period.
MaxEvents == 2

\* ------------------------------------------------------ program constants
PROXIMITY_RADIUS == 50

\* ------------------------------------------------------------ environment
\* The locations the backend returns for the project, in fetch order.
ServerLocations ==
    << [id |-> 1, location_position |-> <<"0">>,   score_points |-> 10, location_content |-> "c1"],
       [id |-> 2, location_position |-> <<"100">>, score_points |-> 5,  location_content |-> "c2"],
       [id |-> 3, location_position |-> <<>>,      score_points |-> 0,  location_content |-> "c3"] >>

\* The locations the backend returns for a second project: one whose
\* position is not a number ("(abc)"), one without a position, one whose
\* position field is blank ("( )"), and one at 100 m.
ServerLocations2 ==
    << [id |-> 12, location_position |-> <<"abc">>, score_points |-> 1, location_content |-> "c12"],
       [id |-> 14, location_position |-> <<>>,      score_points |-> 2, location_content |-> "c14"],
       [id |-> 13, location_position |-> <<" ">>,   score_points |-> 3, location_content |-> "c13"],
       [id |-> 11, location_position |-> <<"100">>, score_points |-> 7, location_content |-> "c11"] >>

\* getLocations(projectId) of api.js.
getLocations(id) == IF id = 1 THEN ServerLocations ELSE ServerLocations2

\* Values of project.participant_scoring the backend may hold.
ScoringModes == {"Points", "Sequence"}

\* What AsyncStorage may hold under visitedLocations_<projectId> when the
\* screen opens: nothing, or the array written by an earlier session (4 is a
\* location that has been deleted from the project since, api.js 208-210).
InitialStores ==
    { [exists |-> FALSE, ids |-> <<>>],
      [exists |-> TRUE,  ids |-> <<1, 4>>] }

\* Device positions the Geolocation Provider may report.
Positions == {49, 50, 51, 200}

\* Data a scanned QR code may carry.
ScanData == {"1", "2"}

\* PROXIMITY_RADIUS of the map screen (MapViewScreen.jsx 32), in metres.
MAP_PROXIMITY_RADIUS == 100

\* Device positions getCurrentPositionAsync may return to the map screen.
MapPositions == {49, 200}

VARIABLES
    project,                \* useState(null): <<>> or <<project record>>
    locations,              \* useState([])
    points,                 \* useState(0)
    pointsPossible,         \* useState(0)
    loading,                \* useState(true)
    currentLocationContent, \* useState(null)
    visitedLocations,       \* useState(new Set())
    visitedLocationsRef,    \* useRef(new Set())
    processingRef,          \* useRef(false)
    scannedData,            \* route parameter scannedData of the screen
    dirty,                  \* which state has changed since effects last ran
    awaitingProject,        \* fetchData calls awaiting getProject
    awaitingLocations,      \* fetchData calls awaiting getLocations
    store,                  \* AsyncStorage entry visitedLocations_<projectId>
    storageQ,               \* AsyncStorage operations issued and not yet done
    effects,                \* instances of the tracking effect (equal ones merged)
    visit,                  \* the handleLocationVisit call in flight
    lastAlert,              \* the last Alert.alert shown
    serverProject,          \* the project record the backend holds
    started,                \* history: unlocks started per id since the last reset
    notified,               \* history: ids whose unlock alert was shown since the last reset
    resets,                 \* history: presses of "Reset access history"
    mapView,                \* state of the map screen (MapViewScreen.jsx 23-27)
    projectId,              \* route parameter projectId of the screen
    store2,                 \* AsyncStorage entry visitedLocations_2
    scanner,                \* state of the QR scanner screen (QRScanner.jsx 19-21)
    failed                  \* history (kept when failed.on): ids whose store write /
                            \* updateLocationVisit call failed since the last reset

vars == << project, locations, points, pointsPossible, loading,
           currentLocationContent, visitedLocations, visitedLocationsRef,
           processingRef, scannedData, dirty, awaitingProject,
           awaitingLocations, store, storageQ, effects, visit, lastAlert,
           serverProject, started, notified, resets, mapView, projectId,
           store2, scanner, failed >>

LocationIds == {ServerLocations[i].id : i \in 1..Len(ServerLocations)}

\* ------------------------------------------------------------ pure helpers
Abs(x) == IF x < 0 THEN -x ELSE x

\* The JavaScript number NaN.  No coordinate and no distance of the model is
\* negative; every comparison with NaN is false (LessOrEqual).
NaN == -1

\* Number(text) of JavaScript on a field of a position string: the value of
\* a decimal numeral, 0 for an empty or blank text, NaN for any other text.
Number(text) ==
    CASE text = "0" -> 0
      [] text = "100" -> 100
      [] text = "" -> 0
      [] text = " " -> 0
      [] OTHER -> NaN

\* a <= b of JavaScript numbers.
LessOrEqual(a, b) == a # NaN /\ b # NaN /\ a <= b

\* geolib getDistance on the line, in whole metres; NaN for a NaN coordinate.
getDistance(from, to) ==
    IF from = NaN \/ to = NaN THEN NaN ELSE Abs(from - to)

\* parsePositionString: null coordinates for an absent (null or empty)
\* position string, else the fields of the string mapped through Number.
parsePositionString(positionString) ==
    IF positionString = <<>> THEN [latitude |-> <<>>]
    ELSE [latitude |-> << Number(positionString[1]) >>]

\* allLocations.map(loc => ({...loc, ...parsePositionString(...)}))
locationsWithCoords(allLocations) ==
    [i \in 1..Len(allLocations) |->
        [id |-> allLocations[i].id,
         location_position |-> allLocations[i].location_position,
         score_points |-> allLocations[i].score_points,
         location_content |-> allLocations[i].location_content,
         latitude |-> parsePositionString(allLocations[i].location_position).latitude]]

\* Array.from(set) followed by JSON.stringify: the ids as an array.  The
\* array is only ever read back through new Set(JSON.parse(...)), so the
\* order of its elements is not observed; the ids are listed in ascending
\* order.
RECURSIVE SetToArray(_)
SetToArray(S) ==
    IF S = {} THEN <<>>
    ELSE LET m == CHOOSE x \in S : \A y \in S : x <= y
         IN << m >> \o SetToArray(S \ {m})

\* new Set(JSON.parse(data)), or the empty set when the entry is missing.
ParseVisited(entry) ==
    IF entry.exists THEN {entry.ids[i] : i \in 1..Len(entry.ids)} ELSE {}

\* allLocations.reduce((sum, loc) => sum + (Number(loc.score_points) || 0), 0)
RECURSIVE totalPossiblePoints(_)
totalPossiblePoints(locs) ==
    IF locs = <<>> THEN 0
    ELSE Head(locs).score_points + totalPossiblePoints(Tail(locs))

\* calculatePoints: the points of the locations whose id is in the visited set.
RECURSIVE calculatePoints(_, _)
calculatePoints(locs, visited) ==
    IF locs = <<>> THEN 0
    ELSE (IF Head(locs).id \in visited THEN Head(locs).score_points ELSE 0)
         + calculatePoints(Tail(locs), visited)

\* A stale copy of the visited set (the set of the first render) in place of
\* the ref: nothing is ever found in it.
has_stale(set, id) == FALSE

\* visitedLocationsRef.current.has(id)
has(set, id) == id \in set

\* The test with a strict comparison: a location exactly on the radius is
\* left out.
IsCandidate_strict(loc, ref, pos) ==
    /\ ~has(ref, loc.id)
    /\ loc.latitude # <<>>
    /\ getDistance(pos, loc.latitude[1]) # NaN
    /\ getDistance(pos, loc.latitude[1]) < PROXIMITY_RADIUS

\* The test of handleLocationUpdate on one location: not visited, has
\* coordinates, and within the radius.
IsCandidate(loc, ref, pos) ==
    /\ ~has(ref, loc.id)
    /\ loc.latitude # <<>>
    /\ LessOrEqual(getDistance(pos, loc.latitude[1]), PROXIMITY_RADIUS)

\* The loop without its break: every candidate is handed on.
VisitTargets_nobreak(locs, ref, pos) ==
    {i \in 1..Len(locs) : IsCandidate(locs[i], ref, pos)}

\* The for-loop of handleLocationUpdate with its break: the locations it
\* hands to handleLocationVisit for one position.
VisitTargets(locs, ref, pos) ==
    LET cand == {i \in 1..Len(locs) : IsCandidate(locs[i], ref, pos)}
    IN IF cand = {} THEN {}
       ELSE {CHOOSE i \in cand : \A j \in cand : i <= j}

\* handleLocationVisit: the set written to state, ref and storage.
updatedVisitedSet(ref, ids) == ref \cup ids

IdleVisit == [pc |-> "idle", loc |-> 0, set |-> {}, pos |-> 0]

\* No failure recorded; the history of failures is kept only when on is set.
NoneFailed == [on |-> FALSE, write |-> {}, visit |-> {}]

\* The QR scanner before it is opened: useState(false), useState(""), no
\* route parameter yet and no alert open; registered tells whether the last
\* render passed handleBarCodeScanned to the camera.  handled and pushes count the
\* barcode events handled and the navigations made since scanning was last
\* enabled; pushed is the last navigation.
ScannerInitial ==
    [projectId |-> <<>>, scanned |-> FALSE, registered |-> TRUE,
     scannedData |-> "", alerts |-> <<>>, handled |-> 0, pushes |-> 0,
     pushed |-> <<>>]

\* The map screen before it is focused: useState(null), useState(null),
\* useState([]), useState([]), useState(true); fetchData not yet called.
MapViewInitial ==
    [pc |-> "unfocused", location |-> <<>>, errorMsg |-> "null",
     unlockedLocations |-> {}, allLocations |-> <<>>, loading |-> TRUE]

\* ------------------------------------------------------------------- Init
\* The screen after its first render: fetchData has called getProject and
\* the tracking effect has run over the empty location list.
InitHistory(stores, modes, scans, on) ==
    /\ project = <<>>
    /\ locations = <<>>
    /\ points = 0
    /\ pointsPossible = 0
    /\ loading = TRUE
    /\ currentLocationContent = "null"
    /\ visitedLocations = {}
    /\ visitedLocationsRef = {}
    /\ processingRef = FALSE
    /\ scannedData \in scans
    /\ dirty = [visited |-> FALSE, locations |-> FALSE]
    /\ awaitingProject = 1
    /\ awaitingLocations = 0
    /\ store \in stores
    /\ storageQ = <<>>
    /\ effects = { [stage |-> "starting", locations |-> <<>>, cleaned |-> FALSE,
                     projectId |-> 1] }
    /\ visit = IdleVisit
    /\ lastAlert = "none"
    /\ serverProject \in {[participant_scoring |-> m] : m \in modes}
    /\ started = [id \in LocationIds |-> 0]
    /\ notified = {}
    /\ resets = 0
    /\ mapView = MapViewInitial
    /\ projectId = 1
    /\ store2 = [exists |-> FALSE, ids |-> <<>>]
    /\ scanner = ScannerInitial
    /\ failed = [NoneFailed EXCEPT !.on = on]

InitState(stores, modes, scans) == InitHistory(stores, modes, scans, FALSE)

\* The screen opened from the project list on a project scored by points.
Init ==
    InitState(InitialStores, {"Points"}, {"none"})

\* The screen opened for the first time (nothing stored) on a project of
\* either scoring mode.
InitScoring ==
    InitState({[exists |-> FALSE, ids |-> <<>>]}, ScoringModes, {"none"})

\* The screen opened from the project list or pushed by the QR scanner with
\* the scanned data as route parameter.
InitScan ==
    InitState(InitialStores, {"Points"}, {"none"} \cup ScanData)

\* The AsyncStorage entry stored under visitedLocations_<key>.
Entry(key) == IF key = 1 THEN store ELSE store2

\* ------------------------------------------------------ fetchData (81-125)
\* getProject resolves with the project: setProject, then getLocations is called.
GetProjectOk ==
    /\ awaitingProject > 0
    /\ project' = << serverProject >>
    /\ awaitingProject' = awaitingProject - 1
    /\ awaitingLocations' = awaitingLocations + 1
    /\ UNCHANGED << locations, points, pointsPossible, loading,
                    currentLocationContent, visitedLocations,
                    visitedLocationsRef, processingRef, scannedData, dirty,
                    store, storageQ, effects, visit, lastAlert, serverProject,
                    started, notified, resets, mapView,
                    projectId, store2, scanner, failed >>

\* getLocations resolves: setLocations, then AsyncStorage.getItem is issued.
GetLocationsOk ==
    /\ awaitingLocations > 0
    /\ locations' = locationsWithCoords(getLocations(projectId))
    /\ dirty' = [dirty EXCEPT !.locations = TRUE]
    /\ storageQ' = Append(storageQ,
                      [op |-> "getItem", ids |-> <<>>, key |-> projectId])
    /\ awaitingLocations' = awaitingLocations - 1
    /\ UNCHANGED << project, points, pointsPossible, loading,
                    currentLocationContent, visitedLocations,
                    visitedLocationsRef, processingRef, scannedData,
                    awaitingProject, store, effects, visit, lastAlert,
                    serverProject, started, notified, resets, mapView,
                    projectId, store2, scanner, failed >>

\* getItem resolves: setVisitedLocations, setPointsPossible, setLoading(false).
GetItemDone ==
    /\ storageQ # <<>>
    /\ Head(storageQ).op = "getItem"
    /\ storageQ' = Tail(storageQ)
    /\ visitedLocations' = ParseVisited(Entry(Head(storageQ).key))
    /\ dirty' = [dirty EXCEPT !.visited = TRUE]
    /\ pointsPossible' = totalPossiblePoints(getLocations(Head(storageQ).key))
    /\ loading' = FALSE
    /\ UNCHANGED << project, locations, points, currentLocationContent,
                    visitedLocationsRef, processingRef, scannedData,
                    awaitingProject, awaitingLocations, store, effects, visit,
                    lastAlert, serverProject, started, notified, resets, mapView,
                    projectId, store2, scanner, failed >>

\* ------------------------------------------- effects (51-53, 140-151, 163-192)
\* Cleanup of the tracking effect: subscription.remove() when the
\* subscription has been assigned, nothing otherwise (the subscription that
\* is assigned later is never removed).
CleanupTracking(es) ==
    {[e EXCEPT !.cleaned = TRUE] : e \in {x \in es : x.cleaned \/ x.stage # "active"}}

\* startLocationTracking is called by a new instance of the effect.
StartTracking(es, locs) ==
    es \cup {[stage |-> "starting", locations |-> locs, cleaned |-> FALSE,
              projectId |-> projectId]}

\* React runs the effects whose dependencies changed.
Commit ==
    /\ dirty.visited \/ dirty.locations
    /\ visitedLocationsRef' =
          IF dirty.visited THEN visitedLocations ELSE visitedLocationsRef
    /\ points' = calculatePoints(locations, visitedLocations)
    /\ effects' = IF dirty.locations
                  THEN StartTracking(CleanupTracking(effects), locations)
                  ELSE effects
    /\ dirty' = [visited |-> FALSE, locations |-> FALSE]
    /\ UNCHANGED << project, locations, pointsPossible, loading,
                    currentLocationContent, visitedLocations, processingRef,
                    scannedData, awaitingProject, awaitingLocations, store,
                    storageQ, visit, lastAlert, serverProject, started,
                    notified, resets, mapView,
                    projectId, store2, scanner, failed >>

\* requestForegroundPermissionsAsync resolves with "granted" and
\* watchPositionAsync resolves: the subscription is assigned.
TrackingStarted(e) ==
    /\ e \in effects
    /\ e.stage = "starting"
    /\ effects' = (effects \ {e}) \cup {[e EXCEPT !.stage = "active"]}
    /\ UNCHANGED << project, locations, points, pointsPossible, loading,
                    currentLocationContent, visitedLocations,
                    visitedLocationsRef, processingRef, scannedData, dirty,
                    awaitingProject, awaitingLocations, store, storageQ, visit,
                    lastAlert, serverProject, started, notified, resets, mapView,
                    projectId, store2, scanner, failed >>

\* handleLocationUpdate without the test of processingRef.current at its
\* first line.
HandleLocationUpdate_unguarded(e, pos) ==
    /\ e \in effects
    /\ e.stage = "active"
    /\ LET locs    == e.locations
           targets == VisitTargets(locs, visitedLocationsRef, pos)
           first   == locs[CHOOSE t \in targets : \A u \in targets : t <= u]
           ids     == {locs[t].id : t \in targets}
           set     == updatedVisitedSet(visitedLocationsRef, ids)
       IN IF targets = {} \/ has(visitedLocationsRef, first.id)
          THEN UNCHANGED vars
          ELSE /\ processingRef' = TRUE
               /\ visitedLocations' = set
               /\ visitedLocationsRef' = set
               /\ dirty' = [dirty EXCEPT !.visited = TRUE]
               /\ storageQ' = Append(storageQ,
                                 [op |-> "setItem", ids |-> SetToArray(set),
                                  key |-> e.projectId])
               /\ visit' = [pc |-> "setItem", loc |-> first.id, set |-> set,
                           pos |-> pos]
               /\ started' = [id \in LocationIds |->
                                IF id \in ids THEN started[id] + 1 ELSE started[id]]
               /\ UNCHANGED << project, locations, points, pointsPossible,
                               loading, currentLocationContent, scannedData,
                               awaitingProject, awaitingLocations, store,
                               effects, lastAlert, serverProject, notified,
                               resets, mapView,
                    projectId, store2, scanner, failed >>

\* ------------------------------------- handleLocationUpdate (209-238) with
\* the synchronous part of handleLocationVisit (256-277)
HandleLocationUpdate(e, pos) ==
    /\ e \in effects
    /\ e.stage = "active"
    /\ LET locs    == e.locations
           targets == VisitTargets(locs, visitedLocationsRef, pos)
           first   == locs[CHOOSE t \in targets : \A u \in targets : t <= u]
           ids     == {locs[t].id : t \in targets}
           set     == updatedVisitedSet(visitedLocationsRef, ids)
       IN IF processingRef \/ targets = {} \/ has(visitedLocationsRef, first.id)
          THEN UNCHANGED vars
          ELSE /\ processingRef' = TRUE
               /\ visitedLocations' = set
               /\ visitedLocationsRef' = set
               /\ dirty' = [dirty EXCEPT !.visited = TRUE]
               /\ storageQ' = Append(storageQ,
                                 [op |-> "setItem", ids |-> SetToArray(set),
                                  key |-> e.projectId])
               /\ visit' = [pc |-> "setItem", loc |-> first.id, set |-> set,
                           pos |-> pos]
               /\ started' = [id \in LocationIds |->
                                IF id \in ids THEN started[id] + 1 ELSE started[id]]
               /\ UNCHANGED << project, locations, points, pointsPossible,
                               loading, currentLocationContent, scannedData,
                               awaitingProject, awaitingLocations, store,
                               effects, lastAlert, serverProject, notified,
                               resets, mapView,
                    projectId, store2, scanner, failed >>

\* handleLocationVisit without the await on AsyncStorage.setItem: the
\* recorder is called while the write is still queued.
SetItemDone_unawaited ==
    \/ /\ visit.pc = "setItem"
       /\ visit' = [visit EXCEPT !.pc = "updateLocationVisit"]
       /\ UNCHANGED << project, locations, points, pointsPossible, loading,
                       currentLocationContent, visitedLocations,
                       visitedLocationsRef, processingRef, scannedData, dirty,
                       awaitingProject, awaitingLocations, store, storageQ,
                       effects, lastAlert, serverProject, started, notified,
                       resets, mapView, projectId, store2, scanner, failed >>
    \/ /\ storageQ # <<>>
       /\ Head(storageQ).op = "setItem"
       /\ store' = IF Head(storageQ).key = 1
                   THEN [exists |-> TRUE, ids |-> Head(storageQ).ids] ELSE store
       /\ store2' = IF Head(storageQ).key = 2
                    THEN [exists |-> TRUE, ids |-> Head(storageQ).ids] ELSE store2
       /\ storageQ' = Tail(storageQ)
       /\ UNCHANGED << project, locations, points, pointsPossible, loading,
                       currentLocationContent, visitedLocations,
                       visitedLocationsRef, processingRef, scannedData, dirty,
                       awaitingProject, awaitingLocations, effects, lastAlert,
                       serverProject, started, notified, resets, mapView,
                       projectId, visit, scanner, failed >>

\* ------------------------------- handleLocationVisit after its awaits (274-307)
\* AsyncStorage.setItem resolves; updateLocationVisit is called.
SetItemDone ==
    /\ storageQ # <<>>
    /\ Head(storageQ).op = "setItem"
    /\ store' = IF Head(storageQ).key = 1
                THEN [exists |-> TRUE, ids |-> Head(storageQ).ids] ELSE store
    /\ store2' = IF Head(storageQ).key = 2
                 THEN [exists |-> TRUE, ids |-> Head(storageQ).ids] ELSE store2
    /\ storageQ' = Tail(storageQ)
    /\ visit' = [visit EXCEPT !.pc = "updateLocationVisit"]
    /\ UNCHANGED << project, locations, points, pointsPossible, loading,
                    currentLocationContent, visitedLocations,
                    visitedLocationsRef, processingRef, scannedData, dirty,
                    awaitingProject, awaitingLocations, effects, lastAlert,
                    serverProject, started, notified, resets, mapView,
                    projectId, scanner, failed >>

\* updateLocationVisit resolves; createTracking is called.
UpdateLocationVisitOk ==
    /\ visit.pc = "updateLocationVisit"
    /\ visit' = [visit EXCEPT !.pc = "createTracking"]
    /\ UNCHANGED << project, locations, points, pointsPossible, loading,
                    currentLocationContent, visitedLocations,
                    visitedLocationsRef, processingRef, scannedData, dirty,
                    awaitingProject, awaitingLocations, store, storageQ,
                    effects, lastAlert, serverProject, started, notified,
                    resets, mapView,
                    projectId, store2, scanner, failed >>

\* A catch block that takes the location out of the visited set again.
VisitCatch_rollback ==
    /\ lastAlert' = "processError"
    /\ visit' = IdleVisit
    /\ processingRef' = FALSE
    /\ visitedLocations' = visitedLocations \ {visit.loc}
    /\ visitedLocationsRef' = visitedLocationsRef \ {visit.loc}
    /\ dirty' = [dirty EXCEPT !.visited = TRUE]
    /\ UNCHANGED << project, locations, points, pointsPossible, loading,
                    currentLocationContent, scannedData, awaitingProject,
                    awaitingLocations, store, storageQ, effects, serverProject,
                    started, notified, resets, mapView,
                    projectId, store2, scanner >>

\* The catch block of handleLocationVisit; handleLocationUpdate then clears
\* the processing flag.
VisitCatch ==
    /\ lastAlert' = "processError"
    /\ visit' = IdleVisit
    /\ processingRef' = FALSE
    /\ UNCHANGED << project, locations, points, pointsPossible, loading,
                    currentLocationContent, visitedLocations,
                    visitedLocationsRef, scannedData, dirty, awaitingProject,
                    awaitingLocations, store, storageQ, effects, serverProject,
                    started, notified, resets, mapView,
                    projectId, store2, scanner >>

\* updateLocationVisit rejects (request error, or location not found).
UpdateLocationVisitFail ==
    /\ visit.pc = "updateLocationVisit"
    /\ failed' = [failed EXCEPT !.visit = IF failed.on THEN @ \cup {visit.loc} ELSE @]
    /\ VisitCatch

\* A handleLocationVisit that lets the rejection of createTracking escape:
\* the statement clearing the processing flag is not reached.
CreateTrackingFail_rethrow ==
    /\ visit.pc = "createTracking"
    /\ lastAlert' = "processError"
    /\ visit' = IdleVisit
    /\ UNCHANGED << project, locations, points, pointsPossible, loading,
                    currentLocationContent, visitedLocations,
                    visitedLocationsRef, processingRef, scannedData, dirty,
                    awaitingProject, awaitingLocations, store, storageQ,
                    effects, serverProject, started, notified, resets, mapView,
                    projectId, store2, scanner, failed >>

\* createTracking rejects.
CreateTrackingFail ==
    /\ visit.pc = "createTracking"
    /\ failed' = failed
    /\ VisitCatch

\* createTracking resolves: setCurrentLocationContent and the unlock alert.
CreateTrackingOk ==
    /\ visit.pc = "createTracking"
    /\ currentLocationContent' =
          (CHOOSE l \in {ServerLocations[k] : k \in 1..Len(ServerLocations)}
                       \cup {ServerLocations2[k] : k \in 1..Len(ServerLocations2)} :
              l.id = visit.loc).location_content
    /\ lastAlert' = "unlock"
    /\ notified' = notified \cup {visit.loc}
    /\ visit' = IdleVisit
    /\ processingRef' = FALSE
    /\ UNCHANGED << project, locations, points, pointsPossible, loading,
                    visitedLocations, visitedLocationsRef, scannedData, dirty,
                    awaitingProject, awaitingLocations, store, storageQ,
                    effects, serverProject, started, resets, mapView,
                    projectId, store2, scanner, failed >>

\* ------------------------------------------ resetVisitedLocations (320-334)
\* The reset button (rendered once loading is over and a project is set):
\* AsyncStorage.removeItem is issued.
ResetPress ==
    /\ ~loading
    /\ project # <<>>
    /\ resets < MaxResets
    /\ storageQ' = Append(storageQ,
                      [op |-> "removeItem", ids |-> <<>>, key |-> projectId])
    /\ resets' = resets + 1
    /\ UNCHANGED << project, locations, points, pointsPossible, loading,
                    currentLocationContent, visitedLocations,
                    visitedLocationsRef, processingRef, scannedData, dirty,
                    awaitingProject, awaitingLocations, store, effects, visit,
                    lastAlert, serverProject, started, notified, mapView,
                    projectId, store2, scanner, failed >>

\* removeItem resolves: state and ref are emptied, the alert is shown and
\* fetchData is called.
RemoveItemDone ==
    /\ storageQ # <<>>
    /\ Head(storageQ).op = "removeItem"
    /\ store' = IF Head(storageQ).key = 1
                THEN [exists |-> FALSE, ids |-> <<>>] ELSE store
    /\ store2' = IF Head(storageQ).key = 2
                 THEN [exists |-> FALSE, ids |-> <<>>] ELSE store2
    /\ storageQ' = Tail(storageQ)
    /\ visitedLocations' = {}
    /\ visitedLocationsRef' = {}
    /\ dirty' = [dirty EXCEPT !.visited = TRUE]
    /\ lastAlert' = "reset"
    /\ awaitingProject' = awaitingProject + 1
    /\ started' = [id \in LocationIds |-> 0]
    /\ notified' = {}
    /\ failed' = [failed EXCEPT !.write = {}, !.visit = {}]
    /\ UNCHANGED << project, locations, points, pointsPossible, loading,
                    currentLocationContent, processingRef, scannedData,
                    awaitingLocations, effects, visit, serverProject, resets,
                    mapView, projectId, scanner >>

\* A catch block that empties state and ref although the entry was not
\* removed.
RemoveItemFail_clears ==
    /\ storageQ # <<>>
    /\ Head(storageQ).op = "removeItem"
    /\ storageQ' = Tail(storageQ)
    /\ lastAlert' = "resetError"
    /\ visitedLocations' = {}
    /\ visitedLocationsRef' = {}
    /\ dirty' = [dirty EXCEPT !.visited = TRUE]
    /\ UNCHANGED << project, locations, points, pointsPossible, loading,
                    currentLocationContent, processingRef, scannedData,
                    awaitingProject, awaitingLocations, store, effects, visit,
                    serverProject, started, notified, resets, mapView,
                    projectId, store2, scanner, failed >>

\* AsyncStorage.removeItem rejects: the catch block of resetVisitedLocations
\* (330-333) alerts "Unable to reset access history."; the statements after
\* the await (322-329) are skipped.
RemoveItemFail ==
    /\ storageQ # <<>>
    /\ Head(storageQ).op = "removeItem"
    /\ storageQ' = Tail(storageQ)
    /\ lastAlert' = "resetError"
    /\ UNCHANGED << project, locations, points, pointsPossible, loading,
                    currentLocationContent, visitedLocations,
                    visitedLocationsRef, processingRef, scannedData, dirty,
                    awaitingProject, awaitingLocations, store, effects, visit,
                    serverProject, started, notified, resets, mapView,
                    projectId, store2, scanner, failed >>

\* ----------------------------------------- QRScanner.jsx (64-82) hand-over
\* The OK button of the scan alert: router.push to the project-home screen
\* with the scanned data as route parameter, here received by the screen
\* that is already mounted (a newly mounted one starts in InitScan).  The
\* screen reads only projectId from its parameters (ProjectHomeScreen.jsx 43).
ScanDelivered(data) ==
    /\ ~loading
    /\ project # <<>>
    /\ scannedData # data
    /\ scannedData' = data
    /\ UNCHANGED << project, locations, points, pointsPossible, loading,
                    currentLocationContent, visitedLocations,
                    visitedLocationsRef, processingRef, dirty, awaitingProject,
                    awaitingLocations, store, storageQ, effects, visit,
                    lastAlert, serverProject, started, notified, resets, mapView,
                    projectId, store2, scanner, failed >>

\* ------------------------------------------------------------------- Next
Next ==
    \/ GetProjectOk
    \/ GetLocationsOk
    \/ GetItemDone
    \/ Commit
    \/ \E e \in effects : TrackingStarted(e)
    \/ \E e \in effects : \E pos \in Positions : HandleLocationUpdate(e, pos)
    \/ SetItemDone
    \/ UpdateLocationVisitOk
    \/ UpdateLocationVisitFail
    \/ CreateTrackingOk
    \/ CreateTrackingFail
    \/ ResetPress
    \/ RemoveItemDone

Spec == Init /\ [][Next]_vars

SpecScoring == InitScoring /\ [][Next]_vars

\* The screen reached from the QR scanner: the same steps, with scans
\* delivered to the mounted screen and without presses of the reset button.
NextScan ==
    \/ GetProjectOk
    \/ GetLocationsOk
    \/ GetItemDone
    \/ Commit
    \/ \E e \in effects : TrackingStarted(e)
    \/ \E e \in effects : \E pos \in Positions : HandleLocationUpdate(e, pos)
    \/ SetItemDone
    \/ UpdateLocationVisitOk
    \/ UpdateLocationVisitFail
    \/ CreateTrackingOk
    \/ CreateTrackingFail
    \/ \E data \in ScanData : ScanDelivered(data)

SpecScan == InitScan /\ [][NextScan]_vars

\* ------------------------------------------- failures of the collaborators
\* getProject rejects: the catch block of fetchData alerts, finally clears
\* the loading flag (119-124).
GetProjectFail ==
    /\ awaitingProject > 0
    /\ awaitingProject' = awaitingProject - 1
    /\ lastAlert' = "loadError"
    /\ loading' = FALSE
    /\ UNCHANGED << project, locations, points, pointsPossible,
                    currentLocationContent, visitedLocations,
                    visitedLocationsRef, processingRef, scannedData, dirty,
                    awaitingLocations, store, storageQ, effects, visit,
                    serverProject, started, notified, resets, mapView,
                    projectId, store2, scanner, failed >>

\* getProject resolves with an empty array: "Project not found", setProject(null)
\* and return (85-89), then finally.
GetProjectNotFound ==
    /\ awaitingProject > 0
    /\ awaitingProject' = awaitingProject - 1
    /\ lastAlert' = "projectNotFound"
    /\ project' = <<>>
    /\ loading' = FALSE
    /\ UNCHANGED << locations, points, pointsPossible,
                    currentLocationContent, visitedLocations,
                    visitedLocationsRef, processingRef, scannedData, dirty,
                    awaitingLocations, store, storageQ, effects, visit,
                    serverProject, started, notified, resets, mapView,
                    projectId, store2, scanner, failed >>

\* getLocations rejects after setProject has been called.
GetLocationsFail ==
    /\ awaitingLocations > 0
    /\ awaitingLocations' = awaitingLocations - 1
    /\ lastAlert' = "loadError"
    /\ loading' = FALSE
    /\ UNCHANGED << project, locations, points, pointsPossible,
                    currentLocationContent, visitedLocations,
                    visitedLocationsRef, processingRef, scannedData, dirty,
                    awaitingProject, store, storageQ, effects, visit,
                    serverProject, started, notified, resets, mapView,
                    projectId, store2, scanner, failed >>

\* AsyncStorage.getItem rejects, or JSON.parse throws on the stored value,
\* after setLocations has been called: setVisitedLocations and
\* setPointsPossible are skipped.
GetItemFail ==
    /\ storageQ # <<>>
    /\ Head(storageQ).op = "getItem"
    /\ storageQ' = Tail(storageQ)
    /\ lastAlert' = "loadError"
    /\ loading' = FALSE
    /\ UNCHANGED << project, locations, points, pointsPossible,
                    currentLocationContent, visitedLocations,
                    visitedLocationsRef, processingRef, scannedData, dirty,
                    awaitingProject, awaitingLocations, store, effects, visit,
                    serverProject, started, notified, resets, mapView,
                    projectId, store2, scanner, failed >>

\* A failed store write that takes the location out of the visited set again.
SetItemFail_rollback ==
    /\ storageQ # <<>>
    /\ Head(storageQ).op = "setItem"
    /\ storageQ' = Tail(storageQ)
    /\ lastAlert' = "processError"
    /\ visit' = IdleVisit
    /\ processingRef' = FALSE
    /\ visitedLocations' = visitedLocations \ {visit.loc}
    /\ visitedLocationsRef' = visitedLocationsRef \ {visit.loc}
    /\ dirty' = [dirty EXCEPT !.visited = TRUE]
    /\ failed' = [failed EXCEPT !.write = IF failed.on THEN @ \cup {visit.loc} ELSE @]
    /\ UNCHANGED << project, locations, points, pointsPossible, loading,
                    currentLocationContent, scannedData, awaitingProject,
                    awaitingLocations, store, effects, serverProject, started,
                    notified, resets, mapView,
                    projectId, store2, scanner >>

\* AsyncStorage.setItem rejects: nothing is stored, the catch block of
\* handleLocationVisit runs and the recorders are not called.
SetItemFail ==
    /\ storageQ # <<>>
    /\ Head(storageQ).op = "setItem"
    /\ storageQ' = Tail(storageQ)
    /\ lastAlert' = "processError"
    /\ visit' = IdleVisit
    /\ processingRef' = FALSE
    /\ failed' = [failed EXCEPT !.write = IF failed.on THEN @ \cup {visit.loc} ELSE @]
    /\ UNCHANGED << project, locations, points, pointsPossible, loading,
                    currentLocationContent, visitedLocations,
                    visitedLocationsRef, scannedData, dirty, awaitingProject,
                    awaitingLocations, store, effects, serverProject, started,
                    notified, resets, mapView,
                    projectId, store2, scanner >>

\* The screen with its collaborators failing.
NextFaults ==
    \/ Next
    \/ GetProjectFail
    \/ GetProjectNotFound
    \/ GetLocationsFail
    \/ GetItemFail
    \/ SetItemFail

SpecFaults == Init /\ [][NextFaults]_vars

\* The same screen with the history of failed calls kept.
InitNoted == InitHistory(InitialStores, {"Points"}, {"none"}, TRUE)

SpecNoted == InitNoted /\ [][NextFaults]_vars

\* The screen with a failing device store, the reset button not pressed, and
\* every call that was issued terminating: AsyncStorage works off its queue,
\* and each recorder call resolves or rejects.
NextLive ==
    \/ GetProjectOk
    \/ GetLocationsOk
    \/ GetItemDone
    \/ GetItemFail
    \/ Commit
    \/ \E e \in effects : TrackingStarted(e)
    \/ \E e \in effects : \E pos \in Positions : HandleLocationUpdate(e, pos)
    \/ SetItemDone
    \/ SetItemFail
    \/ UpdateLocationVisitOk
    \/ UpdateLocationVisitFail
    \/ CreateTrackingOk
    \/ CreateTrackingFail

CallsTerminate ==
    /\ WF_vars(GetItemDone \/ GetItemFail)
    /\ WF_vars(SetItemDone \/ SetItemFail)
    /\ WF_vars(UpdateLocationVisitOk \/ UpdateLocationVisitFail)
    /\ WF_vars(CreateTrackingOk \/ CreateTrackingFail)

SpecLive == Init /\ [][NextLive]_vars /\ CallsTerminate

\* The project-home screen with a device store whose removeItem can fail.
NextResetFault ==
    \/ Next
    \/ RemoveItemFail

SpecResetFault == Init /\ [][NextResetFault]_vars

\* ------------------------------------- startLocationTracking without a grant
\* requestForegroundPermissionsAsync resolves with a status other than
\* "granted": the alert is shown and watchPositionAsync is never called.
TrackingDenied(e) ==
    /\ e \in effects
    /\ e.stage = "starting"
    /\ effects' = (effects \ {e}) \cup {[e EXCEPT !.stage = "denied"]}
    /\ lastAlert' = "permissionDenied"
    /\ UNCHANGED << project, locations, points, pointsPossible, loading,
                    currentLocationContent, visitedLocations,
                    visitedLocationsRef, processingRef, scannedData, dirty,
                    awaitingProject, awaitingLocations, store, storageQ, visit,
                    serverProject, started, notified, resets, mapView,
                    projectId, store2, scanner, failed >>

\* The screen reached from the QR scanner on a device that may refuse the
\* location permission.
NextDenied ==
    \/ NextScan
    \/ \E e \in effects : TrackingDenied(e)

SpecDenied == InitScan /\ [][NextDenied]_vars

\* ------------------------------------------- MapViewScreen.jsx (part_003)
\* What the map screen renders (180-217): the loading indicator, the error
\* text, or the MapView, whose initialRegion reads location.latitude and
\* throws a TypeError when location is null.
MapRendered(m) ==
    IF m.loading THEN "loading"
    ELSE IF m.errorMsg # "null" THEN "error"
    ELSE IF m.location = <<>> THEN "TypeError"
    ELSE "map"

\* renderMarkers (136-177): the pin colour of each location that gets a
\* marker; a location whose latitude is null, 0 or NaN gets none.
renderMarkers(m) ==
    IF m.location = <<>> THEN {}
    ELSE { [id |-> m.allLocations[k].id,
            pinColor |->
               IF m.allLocations[k].id \in m.unlockedLocations THEN "green"
               ELSE IF LessOrEqual(getDistance(m.location[1],
                                                m.allLocations[k].latitude[1]),
                                    MAP_PROXIMITY_RADIUS)
                    THEN "blue" ELSE "red"] :
           k \in {j \in 1..Len(m.allLocations) :
                    /\ m.allLocations[j].latitude # <<>>
                    /\ m.allLocations[j].latitude[1] # 0
                    /\ m.allLocations[j].latitude[1] # NaN} }

\* The screen comes into focus: fetchData sets loading and requests the
\* location permission.
MapFocus ==
    /\ mapView.pc = "unfocused"
    /\ mapView' = [mapView EXCEPT !.pc = "permission", !.loading = TRUE]
    /\ UNCHANGED << project, locations, points, pointsPossible, loading,
                    currentLocationContent, visitedLocations,
                    visitedLocationsRef, processingRef, scannedData, dirty,
                    awaitingProject, awaitingLocations, store, storageQ,
                    effects, visit, lastAlert, serverProject, started,
                    notified, resets,
                    projectId, store2, scanner, failed >>

\* The permission is refused: setErrorMsg, setLoading(false), return.
MapPermissionDenied ==
    /\ mapView.pc = "permission"
    /\ mapView' = [mapView EXCEPT !.pc = "done", !.errorMsg = "permission",
                                  !.loading = FALSE]
    /\ UNCHANGED << project, locations, points, pointsPossible, loading,
                    currentLocationContent, visitedLocations,
                    visitedLocationsRef, processingRef, scannedData, dirty,
                    awaitingProject, awaitingLocations, store, storageQ,
                    effects, visit, lastAlert, serverProject, started,
                    notified, resets,
                    projectId, store2, scanner, failed >>

\* The permission is granted: getCurrentPositionAsync is called.
MapPermissionGranted ==
    /\ mapView.pc = "permission"
    /\ mapView' = [mapView EXCEPT !.pc = "position"]
    /\ UNCHANGED << project, locations, points, pointsPossible, loading,
                    currentLocationContent, visitedLocations,
                    visitedLocationsRef, processingRef, scannedData, dirty,
                    awaitingProject, awaitingLocations, store, storageQ,
                    effects, visit, lastAlert, serverProject, started,
                    notified, resets,
                    projectId, store2, scanner, failed >>

\* The catch and finally blocks of the map screen's fetchData (109-119).
MapCatch ==
    /\ mapView' = [mapView EXCEPT !.pc = "done", !.loading = FALSE]
    /\ lastAlert' = "mapFetchError"
    /\ UNCHANGED << project, locations, points, pointsPossible, loading,
                    currentLocationContent, visitedLocations,
                    visitedLocationsRef, processingRef, scannedData, dirty,
                    awaitingProject, awaitingLocations, store, effects, visit,
                    serverProject, started, notified, resets,
                    projectId, store2, scanner, failed >>

\* getCurrentPositionAsync rejects (location services off, timeout).
MapPositionFail ==
    /\ mapView.pc = "position"
    /\ storageQ' = storageQ
    /\ MapCatch

\* getCurrentPositionAsync resolves: setLocation, then getLocations is called.
MapPositionOk(pos) ==
    /\ mapView.pc = "position"
    /\ mapView' = [mapView EXCEPT !.pc = "locations", !.location = << pos >>]
    /\ UNCHANGED << project, locations, points, pointsPossible, loading,
                    currentLocationContent, visitedLocations,
                    visitedLocationsRef, processingRef, scannedData, dirty,
                    awaitingProject, awaitingLocations, store, storageQ,
                    effects, visit, lastAlert, serverProject, started,
                    notified, resets,
                    projectId, store2, scanner, failed >>

\* getLocations rejects.
MapLocationsFail ==
    /\ mapView.pc = "locations"
    /\ storageQ' = storageQ
    /\ MapCatch

\* getLocations resolves: setAllLocations, then AsyncStorage.getItem is issued.
MapLocationsOk ==
    /\ mapView.pc = "locations"
    /\ mapView' = [mapView EXCEPT !.pc = "getItem",
                      !.allLocations = locationsWithCoords(ServerLocations)]
    /\ storageQ' = Append(storageQ,
                      [op |-> "getItemMap", ids |-> <<>>, key |-> 1])
    /\ UNCHANGED << project, locations, points, pointsPossible, loading,
                    currentLocationContent, visitedLocations,
                    visitedLocationsRef, processingRef, scannedData, dirty,
                    awaitingProject, awaitingLocations, store, effects, visit,
                    lastAlert, serverProject, started, notified, resets,
                    projectId, store2, scanner, failed >>

\* getItem rejects, or JSON.parse throws on the stored value.
MapGetItemFail ==
    /\ mapView.pc = "getItem"
    /\ storageQ # <<>>
    /\ Head(storageQ).op = "getItemMap"
    /\ storageQ' = Tail(storageQ)
    /\ MapCatch

\* A map screen that would unlock what it displays as nearby: the variant
\* C18 rules out.
MapGetItemDone_unlock ==
    /\ mapView.pc = "getItem"
    /\ storageQ # <<>>
    /\ Head(storageQ).op = "getItemMap"
    /\ storageQ' = Tail(storageQ)
    /\ mapView' = [mapView EXCEPT !.pc = "done", !.loading = FALSE,
                      !.unlockedLocations =
                          {mapView.allLocations[k].id :
                             k \in {j \in 1..Len(mapView.allLocations) :
                                      mapView.allLocations[j].id
                                          \in ParseVisited(Entry(Head(storageQ).key))}}]
    /\ store' = [exists |-> TRUE,
                 ids |-> SetToArray(ParseVisited(store) \cup
                           {r.id : r \in {q \in renderMarkers(mapView') :
                                             q.pinColor = "blue"}})]
    /\ UNCHANGED << project, locations, points, pointsPossible, loading,
                    currentLocationContent, visitedLocations,
                    visitedLocationsRef, processingRef, scannedData, dirty,
                    awaitingProject, awaitingLocations, effects, visit,
                    lastAlert, serverProject, started, notified, resets,
                    projectId, store2, scanner, failed >>

\* getItem resolves: the loaded locations whose id is in the stored array
\* become the unlocked locations; finally clears the loading flag.
MapGetItemDone ==
    /\ mapView.pc = "getItem"
    /\ storageQ # <<>>
    /\ Head(storageQ).op = "getItemMap"
    /\ storageQ' = Tail(storageQ)
    /\ mapView' = [mapView EXCEPT !.pc = "done", !.loading = FALSE,
                      !.unlockedLocations =
                          {mapView.allLocations[k].id :
                             k \in {j \in 1..Len(mapView.allLocations) :
                                      mapView.allLocations[j].id
                                          \in ParseVisited(Entry(Head(storageQ).key))}}]
    /\ UNCHANGED << project, locations, points, pointsPossible, loading,
                    currentLocationContent, visitedLocations,
                    visitedLocationsRef, processingRef, scannedData, dirty,
                    awaitingProject, awaitingLocations, store, effects, visit,
                    lastAlert, serverProject, started, notified, resets,
                    projectId, store2, scanner, failed >>

\* The project-home screen, still mounted and tracking, with the map screen
\* opened on top of it; the reset button is not pressed.
NextMap ==
    \/ GetProjectOk
    \/ GetLocationsOk
    \/ GetItemDone
    \/ Commit
    \/ \E e \in effects : TrackingStarted(e)
    \/ \E e \in effects : \E pos \in Positions : HandleLocationUpdate(e, pos)
    \/ SetItemDone
    \/ UpdateLocationVisitOk
    \/ UpdateLocationVisitFail
    \/ CreateTrackingOk
    \/ CreateTrackingFail
    \/ MapFocus
    \/ MapPermissionDenied
    \/ MapPermissionGranted
    \/ MapPositionFail
    \/ \E pos \in MapPositions : MapPositionOk(pos)
    \/ MapLocationsFail
    \/ MapLocationsOk
    \/ MapGetItemFail
    \/ MapGetItemDone

SpecMap == Init /\ [][NextMap]_vars

\* ----------------------------------------------------- QRScanner.jsx
\* Every variable of the project-home screen but its route parameter
\* scannedData.
homeButScannedData ==
    << project, locations, points, pointsPossible, loading,
       currentLocationContent, visitedLocations, visitedLocationsRef,
       processingRef, dirty, awaitingProject, awaitingLocations, store,
       storageQ, effects, visit, lastAlert, serverProject, started, notified,
       resets, mapView, projectId, store2, failed >>

\* The bottom navigation of the project-home screen opens the scanner with
\* the project id of that screen (part_001 29; QRScanner.jsx 30).  The
\* scan alert is modal: no navigation while it is open.
ScannerOpen ==
    /\ scanner.projectId = <<>>
    /\ scanner' = [scanner EXCEPT !.projectId = << projectId >>]
    /\ UNCHANGED homeButScannedData
    /\ UNCHANGED scannedData

\* handleBarCodeScanned (64-82), called by the camera while it is the
\* onBarcodeScanned prop of the last render (93): setScanned(true),
\* setScannedData(data), and the alert whose OK button navigates with the
\* projectId and data of this call.
handleBarCodeScanned(data) ==
    /\ scanner.projectId # <<>>
    /\ scanner.registered
    /\ scanner.handled < MaxEvents
    /\ scanner' = [scanner EXCEPT
                      !.scanned = TRUE,
                      !.scannedData = data,
                      !.alerts = Append(@, [data |-> data,
                                            projectId |-> scanner.projectId[1]]),
                      !.handled = @ + 1]
    /\ UNCHANGED homeButScannedData
    /\ UNCHANGED scannedData

\* The component renders again after setScanned: the camera receives
\* onBarcodeScanned={scanned ? undefined : handleBarCodeScanned} (93), and
\* the "Scan again" button is shown while scanned is true (97-101).
ScannerRender ==
    /\ scanner.registered # ~scanner.scanned
    /\ scanner' = [scanner EXCEPT !.registered = ~scanner.scanned]
    /\ UNCHANGED homeButScannedData
    /\ UNCHANGED scannedData

\* The OK button of the scan alert (73-79): the alert closes and router.push
\* hands projectId and scannedData to the project-home screen.
ScanAlertOk ==
    /\ scanner.alerts # <<>>
    /\ scanner' = [scanner EXCEPT
                      !.alerts = Tail(@),
                      !.pushes = @ + 1,
                      !.pushed = << Head(scanner.alerts) >>]
    /\ scannedData' = Head(scanner.alerts).data
    /\ UNCHANGED homeButScannedData

\* The "Scan again" button (97-101), rendered while scanned is true and
\* reachable once the modal alerts are closed: setScanned(false) enables
\* the next scanning period.
ScanAgain ==
    /\ scanner.scanned
    /\ ~scanner.registered
    /\ scanner.alerts = <<>>
    /\ scanner' = [scanner EXCEPT !.scanned = FALSE, !.handled = 0,
                                  !.pushes = 0]
    /\ UNCHANGED homeButScannedData
    /\ UNCHANGED scannedData

\* The scanner opened from the project-home screen, which stays mounted.
NextScanner ==
    \/ GetProjectOk
    \/ GetLocationsOk
    \/ GetItemDone
    \/ Commit
    \/ \E e \in effects : TrackingStarted(e)
    \/ \E e \in effects : \E pos \in Positions : HandleLocationUpdate(e, pos)
    \/ SetItemDone
    \/ UpdateLocationVisitOk
    \/ UpdateLocationVisitFail
    \/ CreateTrackingOk
    \/ CreateTrackingFail
    \/ ScannerOpen
    \/ \E data \in ScanData : handleBarCodeScanned(data)
    \/ ScannerRender
    \/ ScanAlertOk
    \/ ScanAgain

SpecScanner == Init /\ [][NextScanner]_vars

\* ------------------------------------ a project with malformed positions
\* The screen opened on the second project, whose location list holds
\* positions that are absent, blank and not numeric.
InitMalformed ==
    /\ project = <<>>
    /\ locations = <<>>
    /\ points = 0
    /\ pointsPossible = 0
    /\ loading = TRUE
    /\ currentLocationContent = "null"
    /\ visitedLocations = {}
    /\ visitedLocationsRef = {}
    /\ processingRef = FALSE
    /\ scannedData = "none"
    /\ dirty = [visited |-> FALSE, locations |-> FALSE]
    /\ awaitingProject = 1
    /\ awaitingLocations = 0
    /\ store = [exists |-> FALSE, ids |-> <<>>]
    /\ storageQ = <<>>
    /\ effects = { [stage |-> "starting", locations |-> <<>>, cleaned |-> FALSE,
                     projectId |-> 2] }
    /\ visit = IdleVisit
    /\ lastAlert = "none"
    /\ serverProject = [participant_scoring |-> "Points"]
    /\ started = [id \in LocationIds |-> 0]
    /\ notified = {}
    /\ resets = 0
    /\ mapView = MapViewInitial
    /\ projectId = 2
    /\ store2 = [exists |-> FALSE, ids |-> <<>>]
    /\ scanner = ScannerInitial
    /\ failed = NoneFailed

SpecMalformed == InitMalformed /\ [][Next]_vars

\* ------------------------------------------------ a second project opened
\* The project list pushes /projectHomeScreen?projectId=2 (Project.jsx 104)
\* while the screen, mounted once by the drawer navigator, shows project 1
\* and has no request of a load outstanding and no effect pending: projectId
\* changes, fetchData is re-created (useCallback on projectId) and its
\* effect (127-129) calls it.
ChangeProject ==
    /\ projectId = 1
    /\ ~loading
    /\ project # <<>>
    /\ awaitingProject = 0
    /\ awaitingLocations = 0
    /\ ~dirty.visited
    /\ ~dirty.locations
    /\ projectId' = 2
    /\ awaitingProject' = awaitingProject + 1
    /\ UNCHANGED << project, locations, points, pointsPossible, loading,
                    currentLocationContent, visitedLocations,
                    visitedLocationsRef, processingRef, scannedData, dirty,
                    awaitingLocations, store, storageQ, effects, visit,
                    lastAlert, serverProject, started, notified, resets,
                    mapView, store2, scanner, failed >>

\* The screen settled on project 1: project and locations loaded, location 1
\* unlocked and stored, one subscription alive over the loaded locations,
\* nothing pending; nothing stored for project 2.
InitSwitch ==
    /\ project = << [participant_scoring |-> "Points"] >>
    /\ locations = locationsWithCoords(ServerLocations)
    /\ points = 10
    /\ pointsPossible = totalPossiblePoints(ServerLocations)
    /\ loading = FALSE
    /\ currentLocationContent = "c1"
    /\ visitedLocations = {1}
    /\ visitedLocationsRef = {1}
    /\ processingRef = FALSE
    /\ scannedData = "none"
    /\ dirty = [visited |-> FALSE, locations |-> FALSE]
    /\ awaitingProject = 0
    /\ awaitingLocations = 0
    /\ store = [exists |-> TRUE, ids |-> <<1>>]
    /\ storageQ = <<>>
    /\ effects = { [stage |-> "active",
                     locations |-> locationsWithCoords(ServerLocations),
                     cleaned |-> FALSE, projectId |-> 1] }
    /\ visit = IdleVisit
    /\ lastAlert = "unlock"
    /\ serverProject = [participant_scoring |-> "Points"]
    /\ started = [id \in LocationIds |-> IF id = 1 THEN 1 ELSE 0]
    /\ notified = {1}
    /\ resets = 0
    /\ mapView = MapViewInitial
    /\ projectId = 1
    /\ store2 = [exists |-> FALSE, ids |-> <<>>]
    /\ scanner = ScannerInitial
    /\ failed = NoneFailed

\* The screen with a second project opened in it; the reset button is not
\* pressed.
NextSwitch ==
    \/ GetProjectOk
    \/ GetLocationsOk
    \/ GetItemDone
    \/ Commit
    \/ \E e \in effects : TrackingStarted(e)
    \/ \E e \in effects : \E pos \in Positions : HandleLocationUpdate(e, pos)
    \/ SetItemDone
    \/ UpdateLocationVisitOk
    \/ UpdateLocationVisitFail
    \/ CreateTrackingOk
    \/ CreateTrackingFail
    \/ ChangeProject

SpecSwitch == InitSwitch /\ [][NextSwitch]_vars

\* ================================================================ claims

\* C1: between two resets the unlock transition of a location is started at
\* most once.
C1_AtMostOneUnlockPerLocation ==
    \A id \in LocationIds : started[id] <= 1

C3_SingleUnlockPerUpdate ==
    [][ /\ (visit.pc = "idle" /\ visit' # visit)
             => \A e \in effects :
                 LET locs     == e.locations
                     eligible == {locs[k].id : k \in {k \in 1..Len(locs) :
                                    /\ locs[k].id \notin visitedLocationsRef
                                    /\ locs[k].latitude # <<>>
                                    /\ Abs(visit'.pos - locs[k].latitude[1]) <= 50}}
                 IN Cardinality(eligible) >= 2
                    => /\ Cardinality(eligible \cap visitedLocations') = 1
                       /\ Cardinality(eligible \cap visitedLocationsRef') = 1
        /\ (visit.pc # "idle" /\ visit' # visit)
             => /\ visitedLocations' = visitedLocations
                /\ visitedLocationsRef' = visitedLocationsRef
      ]_vars

\* C3 witness: the update at position 50 (50 m from location 1 and from
\* location 2, both unvisited) has unlocked location 1 and not location 2.
C3_Witness ==
    /\ visit.pc = "setItem"
    /\ visit.pos = 50
    /\ visit.loc = 1
    /\ visit.set = {1}
    /\ visitedLocations = {1}
    /\ visitedLocationsRef = {1}

\* C4: once a reset and the refetch it starts are over, and no unlock has
\* started since the reset emptied the set, the visited set and its ref are
\* empty, the points are 0 and the store entry is gone.
C4_ResetClearsEverything ==
    (/\ resets >= 1
     /\ storageQ = <<>>
     /\ awaitingProject = 0
     /\ awaitingLocations = 0
     /\ ~dirty.visited
     /\ ~dirty.locations
     /\ visit.pc = "idle"
     /\ \A id \in LocationIds : started[id] = 0)
    => (/\ visitedLocations = {}
        /\ visitedLocationsRef = {}
        /\ points = 0
        /\ ~store.exists)

\* C5: the visited set holds only ids of the loaded locations.
C5_VisitedSubsetOfLocations ==
    visitedLocations \subseteq {locations[k].id : k \in 1..Len(locations)}

\* C6: every step other than the emptying of the set by a reset keeps all
\* members of the visited set.
C6_VisitedSetOnlyGrows ==
    [][RemoveItemDone \/ visitedLocations \subseteq visitedLocations']_vars

\* C7: when nothing is pending, the displayed points are the score of
\* (locations, visited set, scoring mode): the sum of the visited locations'
\* points for Points, the number of visited ids for Sequence.
C7_ScoreFollowsScoringMode ==
    (/\ project # <<>>
     /\ storageQ = <<>>
     /\ awaitingProject = 0
     /\ awaitingLocations = 0
     /\ ~dirty.visited
     /\ ~dirty.locations
     /\ visit.pc = "idle")
    => points = IF project[1].participant_scoring = "Points"
                THEN calculatePoints(locations, visitedLocations)
                ELSE Cardinality(visitedLocations)

C9_ScanUnlocksLocation ==
    (/\ scannedData = "2"
     /\ storageQ = <<>>
     /\ awaitingProject = 0
     /\ awaitingLocations = 0
     /\ ~dirty.visited
     /\ ~dirty.locations
     /\ visit.pc = "idle")
    => (2 \in visitedLocations /\ 2 \in ParseVisited(store))

\* C10: with the evaluation idle, a position delivered to a subscription
\* starts an unlock exactly when some unvisited location with coordinates is
\* at most 50 m away, and the location being unlocked is at most 50 m from
\* the position that unlocked it.
C10_ProximityThreshold ==
    /\ \A e \in effects : \A pos \in Positions :
          (e.stage = "active" /\ ~processingRef)
          => LET locs   == e.locations
                 within == {k \in 1..Len(locs) :
                              /\ locs[k].id \notin visitedLocationsRef
                              /\ locs[k].latitude # <<>>
                              /\ Abs(pos - locs[k].latitude[1]) <= 50}
             IN (within # {})
                <=> ENABLED (HandleLocationUpdate(e, pos) /\ visit'.pc = "setItem")
    /\ visit.pc # "idle"
          => \E k \in 1..Len(ServerLocations) :
                /\ ServerLocations[k].id = visit.loc
                /\ ServerLocations[k].location_position # <<>>
                /\ Abs(visit.pos - Number(ServerLocations[k].location_position[1])) <= 50

\* C10 witness: location 2 is being unlocked from position 50, exactly 50 m
\* from it.
C10_Witness ==
    /\ visit.pc = "setItem"
    /\ visit.pos = 50
    /\ visit.loc = 2

\* C11: a failure of getProject or getLocations during the initial load
\* raises the load error and leaves no project, no locations, no visited set
\* and no possible-points total, and no position can unlock anything.
C11_LoadFailureLeavesNoPartialState ==
    [][ (resets = 0 /\ (GetProjectFail \/ GetLocationsFail))
        => /\ lastAlert' = "loadError"
           /\ project' = <<>>
           /\ locations' = <<>>
           /\ visitedLocations' = {}
           /\ pointsPossible' = 0
           /\ \A e \in effects' : \A pos \in Positions :
                 VisitTargets(e.locations, visitedLocationsRef', pos) = {}
      ]_vars

\* C12: when the read of the persisted visited set fails during the initial
\* load, after project and locations have loaded, the visited set is empty
\* (nothing having been unlocked yet), the locations stay loaded, the total
\* of possible points is the sum over the loaded locations, and the loading
\* flag is cleared so that unlocking proceeds.
C12_StoreReadFailureDegradesGracefully ==
    [][ (resets = 0 /\ GetItemFail)
        => /\ ((\A id \in LocationIds : started[id] = 0)
                 => visitedLocations' = {})
           /\ project' # <<>>
           /\ locations' = locationsWithCoords(ServerLocations)
           /\ pointsPossible' = totalPossiblePoints(ServerLocations)
           /\ ~loading'
      ]_vars

\* C13: while every instance of the tracking effect has been refused the
\* permission, there is no subscription, no position can start an unlock,
\* and a scan that has delivered the id of location 2 has, once nothing is
\* pending, put location 2 into the visited set and the store.
C13_DeniedPermissionLeavesScanUnlock ==
    (\A e \in effects : e.stage = "denied")
    => /\ \A e \in effects : \A pos \in Positions :
             ~ENABLED (HandleLocationUpdate(e, pos) /\ visit'.pc = "setItem")
       /\ (/\ scannedData = "2"
            /\ storageQ = <<>>
            /\ awaitingProject = 0
            /\ awaitingLocations = 0
            /\ ~dirty.visited
            /\ ~dirty.locations
            /\ visit.pc = "idle")
           => (2 \in visitedLocations /\ 2 \in ParseVisited(store))

\* C14: an instance of the tracking effect that has been cleaned up holds no
\* live subscription, so no position is delivered to its handler.
C14_CleanedUpEffectHasNoSubscription ==
    \A e \in effects :
        e.cleaned
        => /\ e.stage # "active"
           /\ \A pos \in Positions : ~ENABLED HandleLocationUpdate(e, pos)

C16_NoRenderWithoutDeliveredData ==
    MapRendered(mapView) # "TypeError"

\* C17: a step that writes the durable entry of a project writes only ids of
\* that project's locations into it, and the write of an unlock goes to the
\* entry of the project the unlocked location belongs to.
C17_EntryHoldsOnlyOwnProjectIds ==
    [][ /\ store' # store
             => /\ ParseVisited(store')
                     \subseteq {ServerLocations[k].id : k \in 1..Len(ServerLocations)}
                /\ store2' = store2
        /\ store2' # store2
             => /\ ParseVisited(store2')
                     \subseteq {ServerLocations2[k].id : k \in 1..Len(ServerLocations2)}
                /\ store' = store
      ]_vars

C20_CommittedUnlockIsNotified ==
    [][ (visit.pc \in {"updateLocationVisit", "createTracking"}
           /\ visit'.pc = "idle")
          => /\ visit.loc \in notified'
             /\ \E k \in 1..Len(getLocations(projectId)) :
                   /\ getLocations(projectId)[k].id = visit.loc
                   /\ currentLocationContent'
                        = getLocations(projectId)[k].location_content
             /\ visitedLocations' = visitedLocations
             /\ store' = store
             /\ (UpdateLocationVisitFail \/ CreateTrackingFail)
                  => lastAlert' = "processError"
      ]_vars

\* C19: a location whose position string is absent or malformed has no
\* position.  A location being unlocked has a well-formed position; with the
\* evaluation idle, a position update starts an unlock exactly when some
\* unvisited location with a well-formed position is at most 50 m away, and
\* it unlocks the first such location of the list, whatever malformed
\* locations precede it.  A position string is well formed when it is
\* present and its field is a decimal numeral.
C19_MalformedPositionIsNoPosition ==
  LET WellFormed(position) == position # <<>> /\ position[1] \in {"0", "100"}
  IN
    /\ visit.pc # "idle"
          => \E k \in 1..Len(getLocations(projectId)) :
                /\ getLocations(projectId)[k].id = visit.loc
                /\ WellFormed(getLocations(projectId)[k].location_position)
    /\ \A e \in effects : \A pos \in Positions :
          (e.stage = "active" /\ ~processingRef)
          => LET locs   == e.locations
                 within == {k \in 1..Len(locs) :
                              /\ locs[k].id \notin visitedLocationsRef
                              /\ WellFormed(locs[k].location_position)
                              /\ Abs(pos - locs[k].latitude[1]) <= 50}
             IN /\ (within = {})
                     => ~ENABLED (HandleLocationUpdate(e, pos)
                                    /\ visit'.pc = "setItem")
                /\ (within # {})
                     => ENABLED (HandleLocationUpdate(e, pos)
                                   /\ visit'.pc = "setItem"
                                   /\ visit'.loc
                                        = locs[CHOOSE k \in within :
                                                 \A j \in within : k <= j].id)

\* C21: while a remote recorder call of an unlock is pending the busy guard
\* is already released: a position delivered then is evaluated, and it
\* starts the unlock of an unvisited location at most 50 m away.
C21_GuardReleasedBeforeRemoteCall ==
    visit.pc \in {"updateLocationVisit", "createTracking"}
      => /\ ~processingRef
         /\ \A e \in effects : \A pos \in Positions :
              (/\ e.stage = "active"
               /\ VisitTargets(e.locations, visitedLocationsRef, pos) # {})
              => ENABLED (HandleLocationUpdate(e, pos)
                            /\ started' # started)

\* C22: a position update delivered while the busy guard is set starts no
\* unlock and changes nothing; an unlock in flight has the guard set, and
\* until it ends no step replaces it by the unlock of another location, also
\* with several subscriptions alive.
C22_EvaluationIsSerialized ==
    [][ /\ processingRef
             => /\ \A id \in LocationIds : started'[id] <= started[id]
                /\ ~(visit'.pc = "setItem" /\ visit' # visit)
                /\ (\E e \in effects : \E pos \in Positions :
                       HandleLocationUpdate(e, pos)) => UNCHANGED vars
        /\ visit'.pc # "idle" => processingRef'
        /\ (visit.pc # "idle" /\ visit' # visit)
             => \/ visit' = IdleVisit
                \/ visit'.loc = visit.loc /\ visit'.set = visit.set
      ]_vars

\* C22 witness: the unlock of location 1 is in flight with the guard set,
\* and two live subscriptions would each find location 2 eligible for a
\* position 49 m from it.
C22_Witness ==
    /\ processingRef
    /\ visit.pc = "updateLocationVisit"
    /\ visit.loc = 1
    /\ Cardinality({e \in effects :
                      /\ e.stage = "active"
                      /\ VisitTargets(e.locations, visitedLocationsRef, 51) # {}})
          >= 2

\* C23: the location a position update unlocks is the first one in the fetch
\* order of the location list that is unvisited, has a valid position (a
\* position string that is present and numeric) and is at most 50 m away.
C23_FirstEligibleInFetchOrder ==
    [][ (visit.pc = "idle" /\ visit'.pc = "setItem")
          => \E e \in effects :
               LET locs     == getLocations(e.projectId)
                   eligible == {k \in 1..Len(locs) :
                                  /\ locs[k].id \notin visitedLocationsRef
                                  /\ locs[k].location_position # <<>>
                                  /\ locs[k].location_position[1] \in {"0", "100"}
                                  /\ Abs(visit'.pos
                                          - Number(locs[k].location_position[1]))
                                       <= PROXIMITY_RADIUS}
               IN /\ eligible # {}
                  /\ visit'.loc
                       = locs[CHOOSE k \in eligible : \A j \in eligible : k <= j].id
      ]_vars

\* C24: the steps of an unlock happen in order.  updateLocationVisit is
\* called for a location only in the step in which the store write holding
\* its id completes, createTracking only when updateLocationVisit has
\* resolved, and the unlock notification is emitted only when createTracking
\* has resolved, for the location of that unlock.
C24_UnlockStepsInOrder ==
    [][ /\ (visit'.pc = "updateLocationVisit" /\ visit.pc # "updateLocationVisit")
             => /\ visit.pc = "setItem"
                /\ visit'.loc = visit.loc
                /\ storageQ # <<>>
                /\ Head(storageQ).op = "setItem"
                /\ visit.loc \in {Head(storageQ).ids[k] :
                                    k \in 1..Len(Head(storageQ).ids)}
                /\ storageQ' = Tail(storageQ)
                /\ visit.loc \in ParseVisited(IF Head(storageQ).key = 1
                                               THEN store' ELSE store2')
        /\ (visit'.pc = "createTracking" /\ visit.pc # "createTracking")
             => visit.pc = "updateLocationVisit" /\ visit'.loc = visit.loc
        /\ (~(notified' \subseteq notified)
              \/ (lastAlert' = "unlock" /\ lastAlert # "unlock"))
             => /\ visit.pc = "createTracking"
                /\ notified' = notified \cup {visit.loc}
      ]_vars

\* C24 witness: the unlock of location 1 has run through all its steps: the
\* store holds its id and its notification has been emitted.
C24_Witness ==
    /\ visit.pc = "idle"
    /\ lastAlert = "unlock"
    /\ notified = {1}
    /\ started[1] = 1
    /\ 1 \in ParseVisited(store)
    /\ currentLocationContent = "c1"

\* C25: between resets the durable entry only grows: a store write of an
\* unlock keeps every id the entry held before it; and a location whose id
\* the entry holds is not unlocked again, however the initial load and the
\* position updates interleave.
C25_StoreEntryOnlyGrows ==
    [][ /\ SetItemDone
             => /\ ParseVisited(store) \subseteq ParseVisited(store')
                /\ ParseVisited(store2) \subseteq ParseVisited(store2')
        /\ (visit.pc = "idle" /\ visit'.pc = "setItem")
             => visit'.loc \notin ParseVisited(Entry(projectId))
      ]_vars

\* C28: whenever the screen shows its statistics (loading is over and a
\* project is set), the displayed points do not exceed the displayed
\* possible points.
C28_PointsWithinPossiblePoints ==
    (~loading /\ project # <<>>) => points <= pointsPossible

\* C29: a reset whose removeItem fails has no effect: visited set, its ref,
\* points, possible points, locations, project and the stored entry stay as
\* they are, no effect is left to run, no refetch is started, and the error
\* is reported.
C29_FailedResetHasNoEffect ==
    [][ RemoveItemFail
          => /\ lastAlert' = "resetError"
             /\ UNCHANGED << visitedLocations, visitedLocationsRef, points,
                             pointsPossible, locations, project, store, store2,
                             dirty, awaitingProject, awaitingLocations,
                             loading, effects, visit, processingRef >>
      ]_vars

\* C29 witness: location 1 is unlocked and stored with its 10 points counted;
\* the reset was pressed and its removeItem has failed.
C29_Witness ==
    /\ lastAlert = "resetError"
    /\ resets = 1
    /\ storageQ = <<>>
    /\ visitedLocations = {1}
    /\ visitedLocationsRef = {1}
    /\ ParseVisited(store) = {1}
    /\ points = 10
    /\ awaitingProject = 0
    /\ awaitingLocations = 0
    /\ ~loading

\* C26: a failed store write ends the unlock without any recorder call and
\* without notification, and until the next reset updateLocationVisit is not
\* called for that location again; between a failed updateLocationVisit and
\* the next reset createTracking is not called for that location.
C26_NoRecorderAfterFailure ==
    [][ /\ SetItemFail
             => /\ visit'.pc = "idle"
                /\ notified' = notified
                /\ lastAlert' = "processError"
        /\ UpdateLocationVisitFail
             => visit'.pc = "idle" /\ notified' = notified
        /\ (visit'.pc = "updateLocationVisit" /\ visit.pc # "updateLocationVisit")
             => visit'.loc \notin failed.write
        /\ (visit'.pc = "createTracking" /\ visit.pc # "createTracking")
             => /\ visit'.loc \notin failed.write
                /\ visit'.loc \notin failed.visit
        /\ ~(notified' \subseteq notified)
             => (notified' \ notified) \cap failed.write = {}
      ]_vars

\* C27: whenever the busy guard is set it is eventually cleared, whether the
\* store write and the recorder calls of the unlock succeed or fail, given
\* that each of them terminates.
C27_GuardEventuallyCleared ==
    processingRef ~> ~processingRef

\* C27 witness: the unlock of location 1 failed at its store write and
\* released the guard; a later position has been evaluated and the unlock
\* of location 2 is in flight.
C27_Witness ==
    /\ processingRef
    /\ visit.pc = "setItem"
    /\ visit.loc = 2
    /\ visit.set = {1, 2}
    /\ started[1] = 1
    /\ lastAlert = "processError"
    /\ 1 \notin ParseVisited(store)

\* C30: in one scanning period at most one barcode event is handled, at most
\* one scan alert is open and at most one navigation is made, and a
\* navigation carries the project id the scanner was opened with and the data
\* of the handled event.
C30_OneScanPerScanningPeriod ==
    /\ scanner.handled <= 1
    /\ scanner.pushes <= 1
    /\ Len(scanner.alerts) <= 1
    /\ (scanner.pushed # <<>> /\ scanner.pushes = 1)
          => /\ scanner.pushed[1].projectId = scanner.projectId[1]
             /\ scanner.pushed[1].data = scanner.scannedData
             /\ scanner.scanned

====
